---- MODULE Spec2Model ----
(***************************************************************************)
(* Host-authoritative peer-to-peer game synchronisation of the             *)
(* MultiplayerPong component: connection and role establishment, the       *)
(* per-frame input sampler, the Host's simulation step, the INPUT/UPDATE   *)
(* messages and the session life cycle.                                    *)
(*                                                                         *)
(* The ball's coordinates and velocity are kept in half pixels (H units    *)
(* per pixel) so that the speed increment 0.5 is an integer; paddles and   *)
(* scores are in the source's units.                                       *)
(***************************************************************************)
EXTENDS Integers, Sequences, FiniteSets, TLC

----------------------------------------------------------------------------
(* Program constants *)

INITIAL_SPEED == 1
MAX_SPEED == 8
PADDLE_SPEED == 7
PADDLE_HEIGHT == 80
CANVAS_HEIGHT == 450
CANVAS_WIDTH == 800
BALL_RADIUS == 6
PADDLE_X == 10
PADDLE_W == 10
PADDLE_START == 185
CENTER_X == 400
CENTER_Y == 225
\* half-pixel units per pixel: the speed increment 0.5 is 1 unit
H == 2
SPEED_STEP == 1

----------------------------------------------------------------------------
(* Bounds of the model *)

\* connections ever created in one behaviour
MaxConns == 2
\* messages in flight in one direction of a connection; a send on a full
\* channel is a lost message
MaxQueue == 1
\* scheduled frames of the game loop run in one behaviour of Spec
MaxFrames == 2
\* game sessions opened in one behaviour of Spec
MaxSessions == 2
\* Host frames of one behaviour of SpecGame
MaxTicks == 30

Peers == {"A", "B"}
\* a third endpoint that knows a peer's identity; it only connects
Outsider == "X"
Signs == {1, -1}
Keys == {"up", "down"}

Abs(n) == IF n < 0 THEN -n ELSE n

----------------------------------------------------------------------------
(* Game state and the pure steps of the loop *)

InitialGameState ==
  [ball  |-> [x |-> CENTER_X * H, y |-> CENTER_Y * H,
              dx |-> INITIAL_SPEED * H, dy |-> INITIAL_SPEED * H],
   p1    |-> [y |-> PADDLE_START],
   p2    |-> [y |-> PADDLE_START],
   score |-> [p1 |-> 0, p2 |-> 0]]

\* faulty variant: the reset keeps the ball's height
resetBallKeepY(state, sx, sy) ==
  [state EXCEPT !.ball = [x |-> CENTER_X * H, y |-> state.ball.y,
                          dx |-> sx * INITIAL_SPEED * H,
                          dy |-> sy * INITIAL_SPEED * H]]

\* resetBall: the two signs stand for the two Math.random() draws
resetBall(state, sx, sy) ==
  [state EXCEPT !.ball = [x |-> CENTER_X * H, y |-> CENTER_Y * H,
                          dx |-> sx * INITIAL_SPEED * H,
                          dy |-> sy * INITIAL_SPEED * H]]

\* faulty variant: the cap on the new speed is left out
HitSpeedNoCap(dx) == Abs(dx) + SPEED_STEP

\* speed after a paddle hit: |dx| + 0.5, capped at MAX_SPEED
HitSpeed(dx) ==
  IF Abs(dx) + SPEED_STEP > MAX_SPEED * H THEN MAX_SPEED * H
  ELSE Abs(dx) + SPEED_STEP

\* ball.x += dx; ball.y += dy
Integrate(ball) == [ball EXCEPT !.x = ball.x + ball.dx, !.y = ball.y + ball.dy]

\* faulty variant: only the top wall is tested
WallBounceTopOnly(ball) ==
  IF ball.y - BALL_RADIUS * H < 0 THEN [ball EXCEPT !.dy = -ball.dy] ELSE ball

\* wall: invert dy when the ball's edge is past the top or the bottom
WallBounce(ball) ==
  IF ball.y + BALL_RADIUS * H > CANVAS_HEIGHT * H \/ ball.y - BALL_RADIUS * H < 0
  THEN [ball EXCEPT !.dy = -ball.dy]
  ELSE ball

HitsP1(ball, p1y) ==
  /\ ball.x - BALL_RADIUS * H < (PADDLE_X + PADDLE_W) * H
  /\ ball.y > p1y * H
  /\ ball.y < (p1y + PADDLE_HEIGHT) * H

HitsP2(ball, p2y) ==
  /\ ball.x + BALL_RADIUS * H > (CANVAS_WIDTH - 20) * H
  /\ ball.y > p2y * H
  /\ ball.y < (p2y + PADDLE_HEIGHT) * H

\* paddles: the left test first, then the right test on its result
PaddleBounce(ball, p1y, p2y) ==
  LET b1 == IF HitsP1(ball, p1y) THEN [ball EXCEPT !.dx = HitSpeed(ball.dx)]
            ELSE ball
  IN  IF HitsP2(b1, p2y) THEN [b1 EXCEPT !.dx = -HitSpeed(b1.dx)] ELSE b1

\* faulty variant: the two players are exchanged
ScoreSwapped(state, sx, sy) ==
  IF state.ball.x < 0
  THEN resetBall([state EXCEPT !.score.p1 = @ + 1], sx, sy)
  ELSE IF state.ball.x > CANVAS_WIDTH * H
       THEN resetBall([state EXCEPT !.score.p2 = @ + 1], sx, sy)
       ELSE state

\* faulty variant: a miss takes a point from the player who missed
ScoreLosesPoint(state, sx, sy) ==
  IF state.ball.x < 0
  THEN resetBall([state EXCEPT !.score.p1 = @ - 1], sx, sy)
  ELSE IF state.ball.x > CANVAS_WIDTH * H
       THEN resetBall([state EXCEPT !.score.p2 = @ - 1], sx, sy)
       ELSE state

\* score: x < 0 gives p2 the point, x > CANVAS_WIDTH gives p1 the point
Score(state, sx, sy) ==
  IF state.ball.x < 0
  THEN resetBall([state EXCEPT !.score.p2 = @ + 1], sx, sy)
  ELSE IF state.ball.x > CANVAS_WIDTH * H
       THEN resetBall([state EXCEPT !.score.p1 = @ + 1], sx, sy)
       ELSE state

\* updatePhysics without the broadcast
updatePhysics(state, sx, sy) ==
  LET moved   == WallBounce(Integrate(state.ball))
      bounced == PaddleBounce(moved, state.p1.y, state.p2.y)
  IN  Score([state EXCEPT !.ball = bounced], sx, sy)

\* step 1 of the loop: the paddle after sampling the two key flags
SampleUp(keys, y) ==
  IF keys.up /\ y > 0 THEN y - PADDLE_SPEED ELSE y

SampleDown(keys, y) ==
  IF keys.down /\ y < CANVAS_HEIGHT - PADDLE_HEIGHT THEN y + PADDLE_SPEED ELSE y

Sample(keys, y) == SampleDown(keys, SampleUp(keys, y))

Moved(keys, y) ==
  \/ keys.up /\ y > 0
  \/ keys.down /\ SampleUp(keys, y) < CANVAS_HEIGHT - PADDLE_HEIGHT

----------------------------------------------------------------------------
(* Identities and lobby codes: strings are sequences of characters *)

PREFIX == <<"A", "R", "T", "I", "X", "-">>

\* String.prototype.toUpperCase, on the letters of the codes considered
UpperChar(ch) ==
  CASE ch = "a" -> "A" [] ch = "b" -> "B" [] ch = "r" -> "R"
    [] ch = "t" -> "T" [] ch = "i" -> "I" [] ch = "x" -> "X"
    [] OTHER -> ch

toUpperCase(str) == [i \in 1 .. Len(str) |-> UpperChar(str[i])]

startsWith(str, pre) ==
  Len(str) >= Len(pre) /\ SubSeq(str, 1, Len(pre)) = pre

\* handleJoin's normalisation of the entered code
cleanId(joinId) ==
  IF startsWith(toUpperCase(joinId), PREFIX)
  THEN toUpperCase(joinId) ELSE PREFIX \o joinId

\* the decimal digits of some of the numbers 1000 .. 9999
Numbers == {<<"1", "0", "0", "0">>, <<"1", "0", "0", "1">>,
            <<"9", "9", "9", "9">>}

\* 'ARTIX-' + number
randomId(n) == PREFIX \o n

\* the input element's maxLength
MAX_CODE_LENGTH == 4

----------------------------------------------------------------------------
(* State *)

VARIABLES
  pongActive,  \* per user: the App's pongActive flag (the component is mounted)
  pong,        \* per user: state and refs of the mounted MultiplayerPong
  conns,       \* the connections created so far, with the messages in flight
  timers,      \* per user: pending setTimeout(onClose, 3000) callbacks
  frames,      \* frames of the loop run so far
  keyEvents,   \* key events delivered so far
  sessions     \* game sessions opened so far

vars == <<pongActive, pong, conns, timers, frames, keyEvents, sessions>>

\* the game-loop effect of the last render: on while its listeners are
\* registered, raf while a frame of its loop is scheduled
NoEffect ==
  [on |-> FALSE, raf |-> FALSE, role |-> "none", conn |-> 0,
   listeners |-> 0,   \* keydown/keyup listener pairs registered on window
   callbacks |-> 0]   \* animation frame callbacks scheduled

\* JavaScript's undefined where a number is expected: a comparison with it
\* is false, as is the comparison with every sum it is part of
Undefined == -1000000
\* gameState.current after an UPDATE without a state: reading a field throws
UndefinedState == [undefined |-> TRUE]

\* no Peer object: before the mount effect and after destroy()
NoPeer == [id |-> <<>>, failed |-> FALSE]

\* the component as mounted: useState and useRef initial values
FreshPong ==
  [peer        |-> NoPeer,
   myId        |-> <<>>,
   joinId      |-> <<>>,
   mode        |-> "menu",
   role        |-> "none",
   conn        |-> 0,
   scores      |-> [p1 |-> 0, p2 |-> 0],
   statusMsg   |-> "",
   gameState   |-> InitialGameState,
   myPaddle    |-> PADDLE_START,
   keysPressed |-> [up |-> FALSE, down |-> FALSE],
   effect      |-> NoEffect]

\* a connection object pair: src called peer.connect(id), which leads to dst
NewConn(src, dst, id) ==
  [src |-> src, dst |-> dst,
   peer    |-> id,      \* the identity connected to
   arrived |-> FALSE,   \* 'connection' was emitted at dst
   dstUp   |-> FALSE,   \* dst's data channel is open for sending
   opened  |-> FALSE,   \* 'open' was emitted at src
   closed  |-> FALSE,
   srcH    |-> "none",  \* currentRole of the handlers installed at src
   dstH    |-> "none",  \* currentRole of the handlers installed at dst
   srcSeen |-> FALSE,   \* 'close' reached src's handler
   dstSeen |-> FALSE,   \* 'close' reached dst's handler
   toDst   |-> <<>>,
   toSrc   |-> <<>>]

ConnIds == 1 .. Len(conns)

InputMsg(y) == [type |-> "INPUT", y |-> y]
UpdateMsg(state) == [type |-> "UPDATE", state |-> state]

\* conn.send by endpoint p: nothing when conn is null, dropped when the
\* connection is not open on p's side, lost when the channel is full
Send(net, c, p, msg) ==
  IF c = 0 THEN net
  ELSE LET cn == net[c] IN
    IF cn.closed THEN net
    ELSE IF p = cn.src
         THEN IF cn.opened /\ Len(cn.toDst) < MaxQueue
              THEN [net EXCEPT ![c].toDst = Append(@, msg)] ELSE net
         ELSE IF p = cn.dst /\ cn.dstUp /\ cn.src # Outsider
                 /\ Len(cn.toSrc) < MaxQueue
              THEN [net EXCEPT ![c].toSrc = Append(@, msg)] ELSE net

\* faulty variant: the physics step runs whatever the role
loopPhysicsAnyRole(r, net, p, sx, sy) ==
  LET role   == r.effect.role
      c      == r.effect.conn
      moved  == Moved(r.keysPressed, r.myPaddle)
      y1     == Sample(r.keysPressed, r.myPaddle)
      net1   == IF moved /\ role # "host"
                THEN Send(net, c, p, InputMsg(y1)) ELSE net
  IN  IF r.gameState = UndefinedState
      THEN [r   |-> [r EXCEPT !.myPaddle = y1, !.effect.raf = FALSE,
                               !.effect.callbacks = @ - 1],
            net |-> net1]
      ELSE
        LET gs1 == IF moved /\ role = "host"
                   THEN [r.gameState EXCEPT !.p1.y = y1] ELSE r.gameState
            gs2 == updatePhysics(gs1, sx, sy)
            net2 == IF role = "host"
                    THEN Send(net1, c, p, UpdateMsg(gs2)) ELSE net1
            sc2 == IF role = "host" /\ c # 0 THEN gs2.score ELSE r.scores
        IN  [r   |-> [r EXCEPT !.myPaddle = y1, !.gameState = gs2,
                               !.scores = sc2],
             net |-> net2]

\* faulty variant: the Client sends the paddle value it had before sampling
loopSendsOldValue(r, net, p, sx, sy) ==
  LET role   == r.effect.role
      c      == r.effect.conn
      moved  == Moved(r.keysPressed, r.myPaddle)
      y1     == Sample(r.keysPressed, r.myPaddle)
      net1   == IF moved /\ role # "host"
                THEN Send(net, c, p, InputMsg(r.myPaddle)) ELSE net
  IN  IF r.gameState = UndefinedState
      THEN [r   |-> [r EXCEPT !.myPaddle = y1, !.effect.raf = FALSE,
                               !.effect.callbacks = @ - 1],
            net |-> net1]
      ELSE
        LET gs1 == IF moved /\ role = "host"
                   THEN [r.gameState EXCEPT !.p1.y = y1] ELSE r.gameState
            gs2 == IF role = "host" THEN updatePhysics(gs1, sx, sy) ELSE gs1
            net2 == IF role = "host"
                    THEN Send(net1, c, p, UpdateMsg(gs2)) ELSE net1
            sc2 == IF role = "host" /\ c # 0 THEN gs2.score ELSE r.scores
        IN  [r   |-> [r EXCEPT !.myPaddle = y1, !.gameState = gs2,
                               !.scores = sc2],
             net |-> net2]

\* one run of loop() with the role and conn its effect captured; when
\* gameState.current is undefined the first read of one of its fields (the
\* Host's paddle write, updatePhysics, at the latest draw) throws and the
\* next frame is not requested
loop(r, net, p, sx, sy) ==
  LET role   == r.effect.role
      c      == r.effect.conn
      moved  == Moved(r.keysPressed, r.myPaddle)
      y1     == Sample(r.keysPressed, r.myPaddle)
      net1   == IF moved /\ role # "host"
                THEN Send(net, c, p, InputMsg(y1)) ELSE net
  IN  IF r.gameState = UndefinedState
      THEN [r   |-> [r EXCEPT !.myPaddle = y1, !.effect.raf = FALSE,
                               !.effect.callbacks = @ - 1],
            net |-> net1]
      ELSE
        LET gs1 == IF moved /\ role = "host"
                   THEN [r.gameState EXCEPT !.p1.y = y1] ELSE r.gameState
            gs2 == IF role = "host" THEN updatePhysics(gs1, sx, sy) ELSE gs1
            net2 == IF role = "host"
                    THEN Send(net1, c, p, UpdateMsg(gs2)) ELSE net1
            sc2 == IF role = "host" /\ c # 0 THEN gs2.score ELSE r.scores
        IN  [r   |-> [r EXCEPT !.myPaddle = y1, !.gameState = gs2,
                               !.scores = sc2],
             net |-> net2]

\* faulty variant: both paddles are drawn from gameState.current
drawFromGameState(r) ==
  [ball  |-> <<r.gameState.ball.x, r.gameState.ball.y>>,
   left  |-> r.gameState.p1.y,
   right |-> r.gameState.p2.y]

\* what draw(ctx) paints with the role its effect captured: the ball from
\* gameState.current, the left paddle at myPaddle.current for the Host and
\* at p1.y otherwise, the right paddle at myPaddle.current for the Client
\* and at p2.y otherwise
draw(r) ==
  [ball  |-> <<r.gameState.ball.x, r.gameState.ball.y>>,
   left  |-> IF r.effect.role = "host" THEN r.myPaddle
             ELSE r.gameState.p1.y,
   right |-> IF r.effect.role = "client" THEN r.myPaddle
             ELSE r.gameState.p2.y]

\* faulty variant: the cleanup removes nothing
cleanupNothing(e) == e

\* the cleanup the game-loop effect returned: removes its two listeners and
\* cancels the frame callback last scheduled
cleanup(e) ==
  IF e.on
  THEN [NoEffect EXCEPT !.listeners = e.listeners - 1,
                        !.callbacks = e.callbacks - (IF e.raf THEN 1 ELSE 0)]
  ELSE e

\* the game-loop effect after a render that took r0 to r1: when mode, role
\* or conn changed the old loop is cancelled, and in 'playing' a new loop
\* starts with a first call of loop()
GameLoopEffect(r0, r1, net, p, sx, sy) ==
  IF <<r0.mode, r0.role, r0.conn>> = <<r1.mode, r1.role, r1.conn>>
  THEN [r |-> r1, net |-> net]
  ELSE LET old == cleanup(r0.effect) IN
       IF r1.mode = "playing"
       THEN loop([r1 EXCEPT !.effect =
                    [on |-> TRUE, raf |-> TRUE,
                     role |-> r1.role, conn |-> r1.conn,
                     listeners |-> old.listeners + 1,
                     callbacks |-> old.callbacks + 1]],
                 net, p, sx, sy)
       ELSE [r |-> [r1 EXCEPT !.effect = old], net |-> net]

\* faulty variant: the Host writes the received position to its own paddle
OnDataHandlerWrongPaddle(r, currentRole, data) ==
  IF currentRole = "host"
  THEN IF data.type = "INPUT" /\ r.gameState # UndefinedState
       THEN [r EXCEPT !.gameState.p1.y = data.y] ELSE r
  ELSE IF data.type = "UPDATE"
       THEN IF data.state = UndefinedState
            THEN [r EXCEPT !.gameState = data.state]
            ELSE [r EXCEPT !.gameState = data.state,
                           !.scores = data.state.score]
       ELSE r

\* faulty variant: the Client takes only the ball and the scores of a snapshot
OnDataHandlerMergeBall(r, currentRole, data) ==
  IF currentRole = "host"
  THEN IF data.type = "INPUT" /\ r.gameState # UndefinedState
       THEN [r EXCEPT !.gameState.p2.y = data.y] ELSE r
  ELSE IF data.type = "UPDATE"
       THEN IF data.state = UndefinedState \/ r.gameState = UndefinedState
            THEN [r EXCEPT !.gameState = data.state]
            ELSE [r EXCEPT !.gameState.ball = data.state.ball,
                           !.gameState.score = data.state.score,
                           !.scores = data.state.score]
       ELSE r

\* the data handler installed with currentRole; the Host's write to a field
\* of an undefined gameState.current throws, as does the Client's read of
\* the score of a missing state, after gameState.current was assigned
OnDataHandler(r, currentRole, data) ==
  IF currentRole = "host"
  THEN IF data.type = "INPUT" /\ r.gameState # UndefinedState
       THEN [r EXCEPT !.gameState.p2.y = data.y] ELSE r
  ELSE IF data.type = "UPDATE"
       THEN IF data.state = UndefinedState
            THEN [r EXCEPT !.gameState = data.state]
            ELSE [r EXCEPT !.gameState = data.state,
                           !.scores = data.state.score]
       ELSE r

\* newPeer.destroy() of p: its connections close; no event reaches p again
Destroy(net, p) ==
  [c \in DOMAIN net |->
     IF net[c].src = p \/ net[c].dst = p
     THEN [net[c] EXCEPT !.closed = TRUE, !.toDst = <<>>, !.toSrc = <<>>,
                         !.srcSeen = IF net[c].src = p THEN TRUE ELSE @,
                         !.dstSeen = IF net[c].dst = p THEN TRUE ELSE @]
     ELSE net[c]]

----------------------------------------------------------------------------
(* Operations *)

\* the identity the third endpoint is registered with
OutsiderId == randomId(<<"9", "9", "9", "9">>)
\* the end of a connection to an identity nobody is registered with
Nobody == "nobody"

\* the signalling server has id registered for an endpoint other than p
Held(id, p) ==
  \/ id = OutsiderId
  \/ \E q \in Peers \ {p} : pongActive[q] /\ pong[q].myId = id

\* the endpoint a connection of p to id leads to
Resolve(id, p) ==
  IF \E q \in Peers \ {p} : pongActive[q] /\ pong[q].myId = id
  THEN CHOOSE q \in Peers \ {p} : pongActive[q] /\ pong[q].myId = id
  ELSE IF id = OutsiderId THEN Outsider ELSE Nobody

\* App.handleSend, pong trigger: mounts MultiplayerPong; the mount effect
\* creates the Peer with the identity drawn
OpenGame(p, id) ==
  /\ ~pongActive[p]
  /\ pongActive' = [pongActive EXCEPT ![p] = TRUE]
  /\ pong' = [pong EXCEPT ![p] =
                [FreshPong EXCEPT !.peer = [id |-> id, failed |-> FALSE]]]
  /\ UNCHANGED <<conns, timers>>

\* newPeer.on('open'): the server registered the identity
PeerOpen(p) ==
  /\ pongActive[p]
  /\ pong[p].myId = <<>> /\ ~pong[p].peer.failed
  /\ ~Held(pong[p].peer.id, p)
  /\ pong' = [pong EXCEPT ![p].myId = pong[p].peer.id]
  /\ UNCHANGED <<pongActive, conns, timers>>

\* the server refuses the identity because it is taken: the Peer emits
\* 'error', for which no handler is registered, and is destroyed
PeerError(p) ==
  /\ pongActive[p]
  /\ pong[p].myId = <<>> /\ ~pong[p].peer.failed
  /\ Held(pong[p].peer.id, p)
  /\ pong' = [pong EXCEPT ![p].peer.failed = TRUE]
  /\ conns' = Destroy(conns, p)
  /\ UNCHANGED <<pongActive, timers>>

\* faulty variant: the loop's cleanup does not cancel the scheduled frame
UnmountLoopRunning(p) ==
  /\ pongActive' = [pongActive EXCEPT ![p] = FALSE]
  /\ pong' = [pong EXCEPT ![p] = [FreshPong EXCEPT !.effect = pong[p].effect]]
  /\ conns' = Destroy(conns, p)

\* onClose: setPongActive(false) unmounts the component; the effects'
\* cleanups cancel the loop and destroy the peer
Unmount(p) ==
  /\ pongActive' = [pongActive EXCEPT ![p] = FALSE]
  /\ pong' = [pong EXCEPT ![p] =
                [FreshPong EXCEPT !.effect = cleanup(pong[p].effect)]]
  /\ conns' = Destroy(conns, p)

\* the X button
CloseGame(p) ==
  /\ pongActive[p]
  /\ Unmount(p)
  /\ UNCHANGED timers

\* a pending setTimeout(onClose, 3000) fires
TimerFire(p) ==
  /\ timers[p] > 0
  /\ timers' = [timers EXCEPT ![p] = @ - 1]
  /\ IF pongActive[p] THEN Unmount(p)
     ELSE UNCHANGED <<pongActive, pong, conns>>

\* menu buttons: HOST, JOIN, CANCEL/BACK
SetMode(p, from, to) ==
  /\ pongActive[p]
  /\ pong[p].mode = from
  /\ pong' = [pong EXCEPT ![p].mode = to]
  /\ UNCHANGED <<pongActive, conns, timers>>

ChooseHost(p) == SetMode(p, "menu", "hosting")
ChooseJoin(p) == SetMode(p, "menu", "joining")
Cancel(p) ==
  /\ pong[p].mode \in {"hosting", "joining"}
  /\ SetMode(p, pong[p].mode, "menu")

\* the code input's onChange: the field holds at most MAX_CODE_LENGTH
\* characters
TypeCode(p, value) ==
  /\ pongActive[p]
  /\ pong[p].mode = "joining"
  /\ Len(value) <= MAX_CODE_LENGTH /\ value # pong[p].joinId
  /\ pong' = [pong EXCEPT ![p].joinId = value]
  /\ UNCHANGED <<pongActive, conns, timers>>

\* the CONNECT button, enabled when the code has four characters:
\* handleJoin.  peer.connect on a destroyed Peer returns no connection, and
\* the registration of the 'open' handler on it throws after conn and role
\* were set.
handleJoin(p) ==
  /\ pongActive[p]
  /\ pong[p].mode = "joining"
  /\ Len(pong[p].joinId) >= MAX_CODE_LENGTH
  /\ IF pong[p].peer.failed
     THEN /\ pong' = [pong EXCEPT ![p].conn = 0,
                                  ![p].role = "client",
                                  ![p].statusMsg = "CONNECTING"]
          /\ UNCHANGED conns
     ELSE /\ Len(conns) < MaxConns
          /\ conns' = Append(conns,
                         NewConn(p, Resolve(cleanId(pong[p].joinId), p),
                                 cleanId(pong[p].joinId)))
          /\ pong' = [pong EXCEPT ![p].conn = Len(conns) + 1,
                                  ![p].role = "client",
                                  ![p].statusMsg = "CONNECTING"]
  /\ UNCHANGED <<pongActive, timers>>

\* a third endpoint connects to q's registered identity
OutsiderConnect(q) ==
  /\ pongActive[q] /\ pong[q].myId # <<>>
  /\ Len(conns) < MaxConns
  /\ conns' = Append(conns, NewConn(Outsider, q, pong[q].myId))
  /\ UNCHANGED <<pongActive, pong, timers>>

\* faulty variant: the 'connection' handler does not set the role
onConnectionNoRole(r, c) ==
  [r EXCEPT !.conn = c, !.mode = "playing", !.statusMsg = "CONNECTED"]

\* the state updates of newPeer.on('connection')
onConnection(r, c) ==
  [r EXCEPT !.conn = c, !.role = "host", !.mode = "playing",
            !.statusMsg = "CONNECTED"]

\* newPeer.on('connection')
Incoming(c) ==
  /\ c \in ConnIds
  /\ conns[c].dst \in Peers
  /\ ~conns[c].arrived /\ ~conns[c].closed
  /\ LET q  == conns[c].dst
         r1 == onConnection(pong[q], c)
         n1 == [conns EXCEPT ![c].arrived = TRUE, ![c].dstH = "host"]
     IN  /\ pongActive[q]
         /\ \E sx \in Signs, sy \in Signs :
              LET res == GameLoopEffect(pong[q], r1, n1, q, sx, sy)
              IN  /\ pong' = [pong EXCEPT ![q] = res.r]
                  /\ conns' = res.net
  /\ UNCHANGED <<pongActive, timers>>

\* the accepting side's data channel opens (no handler is registered for it)
ChannelUp(c) ==
  /\ c \in ConnIds
  /\ conns[c].arrived /\ ~conns[c].dstUp /\ ~conns[c].closed
  /\ conns' = [conns EXCEPT ![c].dstUp = TRUE]
  /\ UNCHANGED <<pongActive, pong, timers>>

\* connection.on('open') registered by handleJoin
ConnOpen(c) ==
  /\ c \in ConnIds
  /\ conns[c].src \in Peers
  /\ conns[c].arrived /\ ~conns[c].opened /\ ~conns[c].closed
  /\ LET p  == conns[c].src
         r1 == [pong[p] EXCEPT !.mode = "playing", !.statusMsg = "CONNECTED"]
         n1 == [conns EXCEPT ![c].opened = TRUE, ![c].srcH = "client"]
     IN  \E sx \in Signs, sy \in Signs :
           LET res == GameLoopEffect(pong[p], r1, n1, p, sx, sy)
           IN  /\ pong' = [pong EXCEPT ![p] = res.r]
               /\ conns' = res.net
  /\ UNCHANGED <<pongActive, timers>>

\* connection.on('data') at the accepting side
OnDataDst(c) ==
  /\ c \in ConnIds
  /\ ~conns[c].closed /\ conns[c].dstH # "none" /\ conns[c].toDst # <<>>
  /\ pong' = [pong EXCEPT ![conns[c].dst] =
                OnDataHandler(@, conns[c].dstH, Head(conns[c].toDst))]
  /\ conns' = [conns EXCEPT ![c].toDst = Tail(@)]
  /\ UNCHANGED <<pongActive, timers>>

\* connection.on('data') at the initiating side
OnDataSrc(c) ==
  /\ c \in ConnIds
  /\ ~conns[c].closed /\ conns[c].srcH # "none" /\ conns[c].toSrc # <<>>
  /\ pong' = [pong EXCEPT ![conns[c].src] =
                OnDataHandler(@, conns[c].srcH, Head(conns[c].toSrc))]
  /\ conns' = [conns EXCEPT ![c].toSrc = Tail(@)]
  /\ UNCHANGED <<pongActive, timers>>

\* a message in flight is lost
LoseToDst(c) ==
  /\ c \in ConnIds
  /\ conns[c].toDst # <<>>
  /\ conns' = [conns EXCEPT ![c].toDst = Tail(@)]
  /\ UNCHANGED <<pongActive, pong, timers>>

LoseToSrc(c) ==
  /\ c \in ConnIds
  /\ conns[c].toSrc # <<>>
  /\ conns' = [conns EXCEPT ![c].toSrc = Tail(@)]
  /\ UNCHANGED <<pongActive, pong, timers>>

\* the transport drops an established connection
Disconnect(c) ==
  /\ c \in ConnIds
  /\ conns[c].arrived /\ ~conns[c].closed
  /\ conns' = [conns EXCEPT ![c].closed = TRUE, ![c].toDst = <<>>,
                            ![c].toSrc = <<>>]
  /\ UNCHANGED <<pongActive, pong, timers>>

\* connection.on('close') installed by setupConnectionHandlers
OnCloseHandler(p) ==
  /\ pong' = [pong EXCEPT ![p].statusMsg = "OPPONENT DISCONNECTED"]
  /\ timers' = [timers EXCEPT ![p] = @ + 1]
  /\ UNCHANGED pongActive

OnCloseDst(c) ==
  /\ c \in ConnIds
  /\ conns[c].closed /\ conns[c].dstH # "none" /\ ~conns[c].dstSeen
  /\ conns' = [conns EXCEPT ![c].dstSeen = TRUE]
  /\ OnCloseHandler(conns[c].dst)

OnCloseSrc(c) ==
  /\ c \in ConnIds
  /\ conns[c].closed /\ conns[c].srcH # "none" /\ ~conns[c].srcSeen
  /\ conns' = [conns EXCEPT ![c].srcSeen = TRUE]
  /\ OnCloseHandler(conns[c].src)

\* faulty variant: a key-down event moves the paddle itself
handleKeyDownMovesPaddle(p, k) ==
  /\ pong[p].effect.on
  /\ pong' = [pong EXCEPT ![p].keysPressed[k] = TRUE,
                          ![p].myPaddle = @ + (IF k = "up" THEN -PADDLE_SPEED
                                               ELSE PADDLE_SPEED)]
  /\ UNCHANGED <<pongActive, conns, timers>>

\* keydown / keyup listeners of the running game-loop effect
handleKeyDown(p, k) ==
  /\ pong[p].effect.on
  /\ pong' = [pong EXCEPT ![p].keysPressed[k] = TRUE]
  /\ UNCHANGED <<pongActive, conns, timers>>

handleKeyUp(p, k) ==
  /\ pong[p].effect.on
  /\ pong' = [pong EXCEPT ![p].keysPressed[k] = FALSE]
  /\ UNCHANGED <<pongActive, conns, timers>>

\* the scheduled animation frame runs loop()
Frame(p) ==
  /\ pong[p].effect.on /\ pong[p].effect.raf
  /\ \E sx \in Signs, sy \in Signs :
       LET res == loop(pong[p], conns, p, sx, sy)
       IN  /\ pong' = [pong EXCEPT ![p] = res.r]
           /\ conns' = res.net
  /\ UNCHANGED <<pongActive, timers>>

----------------------------------------------------------------------------
(* The sessions of two users and a third endpoint *)

Init ==
  /\ pongActive = [p \in Peers |-> FALSE]
  /\ pong = [p \in Peers |-> FreshPong]
  /\ conns = <<>>
  /\ timers = [p \in Peers |-> 0]
  /\ frames = 0
  /\ keyEvents = 0
  /\ sessions = 0

Counted == UNCHANGED <<frames, keyEvents, sessions>>

\* the identities the two users' Peers draw, and the code of the first
IdOf == [p \in Peers |-> IF p = "A" THEN randomId(<<"1", "0", "0", "0">>)
                                    ELSE randomId(<<"1", "0", "0", "1">>)]
CodeOfA == <<"1", "0", "0", "0">>

\* user A is the one who hosts, user B the one who enters A's code
DoOpenGame == \E p \in Peers :
  sessions < MaxSessions /\ OpenGame(p, IdOf[p]) /\ sessions' = sessions + 1
  /\ UNCHANGED <<frames, keyEvents>>
DoPeerOpen == \E p \in Peers : PeerOpen(p) /\ Counted
DoTypeCode == TypeCode("B", CodeOfA) /\ Counted
DoCloseGame == \E p \in Peers : CloseGame(p) /\ Counted
DoTimerFire == \E p \in Peers : TimerFire(p) /\ Counted
DoChooseHost == ChooseHost("A") /\ Counted
DoChooseJoin == ChooseJoin("B") /\ Counted
DoCancel == \E p \in Peers : Cancel(p) /\ Counted
DoJoin == \E p \in Peers : handleJoin(p) /\ Counted
DoOutsiderConnect == \E q \in Peers : OutsiderConnect(q) /\ Counted
DoIncoming == \E c \in ConnIds : Incoming(c) /\ Counted
DoChannelUp == \E c \in ConnIds : ChannelUp(c) /\ Counted
DoConnOpen == \E c \in ConnIds : ConnOpen(c) /\ Counted
DoOnDataDst == \E c \in ConnIds : OnDataDst(c) /\ Counted
DoOnDataSrc == \E c \in ConnIds : OnDataSrc(c) /\ Counted
DoLoseToDst == \E c \in ConnIds : LoseToDst(c) /\ Counted
DoLoseToSrc == \E c \in ConnIds : LoseToSrc(c) /\ Counted
DoDisconnect == \E c \in ConnIds : Disconnect(c) /\ Counted
DoOnCloseDst == \E c \in ConnIds : OnCloseDst(c) /\ Counted
DoOnCloseSrc == \E c \in ConnIds : OnCloseSrc(c) /\ Counted
DoKeyDown == \E p \in Peers, k \in Keys : handleKeyDown(p, k) /\ Counted
DoKeyUp == \E p \in Peers, k \in Keys : handleKeyUp(p, k) /\ Counted
DoFrame == \E p \in Peers :
  frames < MaxFrames /\ Frame(p) /\ frames' = frames + 1
  /\ UNCHANGED <<keyEvents, sessions>>

\* the life cycle of the sessions; no key is pressed
Next ==
  \/ DoOpenGame \/ DoPeerOpen \/ DoCloseGame \/ DoTimerFire
  \/ DoChooseHost \/ DoChooseJoin \/ DoCancel
  \/ DoTypeCode \/ DoJoin \/ DoOutsiderConnect
  \/ DoIncoming \/ DoChannelUp \/ DoConnOpen
  \/ DoOnDataSrc \/ DoLoseToSrc
  \/ DoDisconnect \/ DoOnCloseDst \/ DoOnCloseSrc
  \/ DoFrame

Spec == Init /\ [][Next]_vars


----------------------------------------------------------------------------
(* The Host's simulation during a match *)

Host == "A"
Client == "B"

\* n Host frames with no key held and no message received
RECURSIVE IdleRun(_, _, _, _)
IdleRun(state, n, sx, sy) ==
  IF n = 0 THEN state
  ELSE IF n = 1 THEN updatePhysics(state, sx, sy)
  ELSE LET half == IdleRun(state, n \div 2, sx, sy)
       IN  \* the comparison makes TLC compute the first half before the second
           IF half.score.p1 >= 0
           THEN IdleRun(half, n - (n \div 2), sx, sy) ELSE half

\* where the observation of a match starts: n frames were played, the
\* Client's paddle was put at y2 before the ball came near it, and the
\* resets so far drew the signs sx, sy.  The starts are the first frame and
\* the frames just before the ball reaches the bottom wall, the right
\* paddle (missing it, hitting it), the top wall and the left paddle.
Starts ==
  { [n |-> 1,   y2 |-> PADDLE_START, sx |-> 1,  sy |-> 1],
    [n |-> 210, y2 |-> PADDLE_START, sx |-> 1,  sy |-> 1],
    [n |-> 372, y2 |-> PADDLE_START, sx |-> 1,  sy |-> 1],
    [n |-> 372, y2 |-> PADDLE_START + 8 * PADDLE_SPEED, sx |-> 1, sy |-> 1],
    [n |-> 611, y2 |-> PADDLE_START, sx |-> 1,  sy |-> -1],
    [n |-> 773, y2 |-> PADDLE_START, sx |-> -1, sy |-> 1] }

\* the connection of a match: B connected to A, open on both sides
MatchConn ==
  [NewConn(Client, Host, IdOf[Host]) EXCEPT !.arrived = TRUE, !.dstUp = TRUE,
                                !.opened = TRUE, !.srcH = "client",
                                !.dstH = "host"]

MatchPong(role, state, paddle) ==
  [FreshPong EXCEPT !.peer = [id |-> IF role = "host" THEN IdOf[Host]
                                     ELSE IdOf[Client],
                              failed |-> FALSE],
                    !.myId = IF role = "host" THEN IdOf[Host]
                             ELSE IdOf[Client],
                    !.joinId = IF role = "host" THEN <<>> ELSE CodeOfA,
                    !.mode = "playing", !.role = role, !.conn = 1,
                    !.statusMsg = "CONNECTED", !.gameState = state,
                    !.scores = state.score, !.myPaddle = paddle,
                    !.effect = [on |-> TRUE, raf |-> TRUE, role |-> role,
                                conn |-> 1, listeners |-> 1,
                                callbacks |-> 1]]

\* the Host's state at a start
StartState(s) ==
  IdleRun([InitialGameState EXCEPT !.p2.y = s.y2], s.n, s.sx, s.sy)

\* the channel to the Client is full of snapshots it has not taken yet:
\* the snapshots of the following frames are lost
FullOf(msg) == [i \in 1 .. MaxQueue |-> msg]

InitGame ==
  \E s \in Starts :
    /\ pongActive = [p \in Peers |-> TRUE]
    /\ pong = [p \in Peers |->
         IF p = Host
         THEN MatchPong("host", StartState(s), PADDLE_START)
         ELSE MatchPong("client", InitialGameState, s.y2)]
    /\ conns = <<[MatchConn EXCEPT !.toSrc = FullOf(UpdateMsg(StartState(s)))]>>
    /\ timers = [p \in Peers |-> 0]
    /\ frames = 0
    /\ keyEvents = 0
    /\ sessions = 2

HostFrame ==
  frames < MaxTicks /\ Frame(Host) /\ frames' = frames + 1
  /\ UNCHANGED <<keyEvents, sessions>>
HostKeyDown == \E k \in Keys : handleKeyDown(Host, k) /\ Counted
HostKeyUp == \E k \in Keys : handleKeyUp(Host, k) /\ Counted

NextGame == HostFrame \/ HostKeyDown \/ HostKeyUp

SpecGame == InitGame /\ [][NextGame]_vars


----------------------------------------------------------------------------
(* A match in progress, for the rules of one simulation step *)

\* Host frames of one behaviour of SpecPhysics
MaxPhysTicks == 2

\* horizontal positions (half pixels): behind, inside and in front of each
\* paddle's column, and mid-field
GridX == {4, 12, 30, 50, 60, 800, 1540, 1550, 1570, 1596}
\* heights (half pixels): beside the paddles and in front of them
GridY == {40, 450}
\* every velocity the hit rule produces: 1 to MAX_SPEED in steps of 0.5
GridDx == {d \in -(MAX_SPEED * H) .. MAX_SPEED * H : Abs(d) >= INITIAL_SPEED * H}

InitPhysics ==
  \E x \in GridX, y \in GridY, dx \in GridDx, sy \in Signs :
    LET state == [InitialGameState EXCEPT
                    !.ball = [x |-> x, y |-> y, dx |-> dx,
                              dy |-> sy * INITIAL_SPEED * H]]
    IN  /\ pongActive = [p \in Peers |-> TRUE]
        /\ pong = [p \in Peers |->
             IF p = Host THEN MatchPong("host", state, PADDLE_START)
             ELSE MatchPong("client", InitialGameState, PADDLE_START)]
        /\ conns = <<[MatchConn EXCEPT !.toSrc = FullOf(UpdateMsg(state))]>>
        /\ timers = [p \in Peers |-> 0]
        /\ frames = 0
        /\ keyEvents = 0
        /\ sessions = 2

PhysFrame ==
  frames < MaxPhysTicks /\ Frame(Host) /\ frames' = frames + 1
  /\ UNCHANGED <<keyEvents, sessions>>

NextPhysics == PhysFrame

SpecPhysics == InitPhysics /\ [][NextPhysics]_vars

----------------------------------------------------------------------------
(* Properties of the Host's simulation *)

HostGS == pong[Host].gameState

InField(y) == 0 <= y /\ y <= CANVAS_HEIGHT - PADDLE_HEIGHT

\* a step of SpecGame or SpecPhysics that is a Host frame
HostTick == frames' = frames + 1

\* the ball as integrated in this frame is past the left / right boundary
CrossesLeft == HostGS.ball.x + HostGS.ball.dx < 0
CrossesRight == HostGS.ball.x + HostGS.ball.dx > CANVAS_WIDTH * H

AtCentre(ball) ==
  /\ ball.x = CENTER_X * H /\ ball.y = CENTER_Y * H
  /\ Abs(ball.dx) = INITIAL_SPEED * H /\ Abs(ball.dy) = INITIAL_SPEED * H

\* C1: after every Host tick paddles.host_y and paddles.client_y are within
\* [0, field_height - paddle_height] = [0, 370].
C1_PaddlesInField ==
  \A p \in Peers :
    (pongActive[p] /\ pong[p].effect.on /\ pong[p].effect.role = "host")
      => /\ InField(pong[p].gameState.p1.y)
         /\ InField(pong[p].gameState.p2.y)

\* C3: after every Host tick the ball's horizontal speed |dx| is at most
\* MAX_SPEED.
C3_SpeedCapped == Abs(HostGS.ball.dx) <= MAX_SPEED * H

\* a tick in which a paddle hit left the ball at the maximum speed
C3_Witness ==
  /\ frames > 0
  /\ Abs(HostGS.ball.dx) = MAX_SPEED * H
  /\ \/ HitsP1(HostGS.ball, HostGS.p1.y)
     \/ HitsP2(HostGS.ball, HostGS.p2.y)

\* C4: after every Host simulation step the ball is inside the field:
\* 0 <= x <= 800 and 0 <= y <= 450.
C4_BallInField ==
  /\ 0 <= HostGS.ball.x /\ HostGS.ball.x <= CANVAS_WIDTH * H
  /\ 0 <= HostGS.ball.y /\ HostGS.ball.y <= CANVAS_HEIGHT * H

\* a tick that bounced the ball off the bottom wall
C4_Witness ==
  /\ frames > 0
  /\ HostGS.ball.y + BALL_RADIUS * H > CANVAS_HEIGHT * H
  /\ HostGS.ball.dy < 0

\* C5 as stated: when the ball crosses x = 0 the Host's score increments by
\* exactly 1 and the ball is reset to the centre with |dx| = |dy| = 1.
C5_HostScoresOnLeftCross ==
  [][(HostTick /\ CrossesLeft)
       => /\ HostGS'.score.p1 = HostGS.score.p1 + 1
          /\ AtCentre(HostGS'.ball)]_vars

\* C5 as amended: when the ball crosses x = 0 (a miss by the Host) the
\* Client's score increments by exactly 1, the Host's score is unchanged and
\* the ball is reset to the centre with |dx| = |dy| = 1.
C5_ClientScoresOnLeftCross ==
  [][(HostTick /\ CrossesLeft)
       => /\ HostGS'.score.p2 = HostGS.score.p2 + 1
          /\ HostGS'.score.p1 = HostGS.score.p1
          /\ AtCentre(HostGS'.ball)]_vars

\* the Client has a point and the ball is back at the centre
C5_Witness ==
  /\ HostGS.score.p2 = 1 /\ HostGS.score.p1 = 1
  /\ AtCentre(HostGS.ball)
  /\ frames > 0

\* C6: in a Host tick in which the ball crosses a side boundary exactly the
\* score of the player opposite that side increases by 1, the other score
\* is unchanged and the ball is reset to the centre at the base speed; in a
\* tick with no crossing neither score changes.
C6_ScoringRule ==
  [][HostTick =>
       IF CrossesLeft
       THEN /\ HostGS'.score = [HostGS.score EXCEPT !.p2 = @ + 1]
            /\ AtCentre(HostGS'.ball)
       ELSE IF CrossesRight
            THEN /\ HostGS'.score = [HostGS.score EXCEPT !.p1 = @ + 1]
                 /\ AtCentre(HostGS'.ball)
            ELSE HostGS'.score = HostGS.score]_vars

\* the Host has the first point of the match and the ball is at the centre
C6_Witness ==
  /\ HostGS.score = [p1 |-> 1, p2 |-> 0]
  /\ AtCentre(HostGS.ball)
  /\ frames > 0


----------------------------------------------------------------------------
(* The two peers of a match exchanging INPUT and UPDATE messages *)

\* frames of the two loops in one behaviour of SpecMatch
MaxMatchFrames == 4

\* the match right after both sides saw the connection open: the Host has
\* run the first frame of its loop
InitMatch ==
  /\ pongActive = [p \in Peers |-> TRUE]
  /\ pong = [p \in Peers |->
       IF p = Host
       THEN MatchPong("host", IdleRun(InitialGameState, 1, 1, 1), PADDLE_START)
       ELSE MatchPong("client", InitialGameState, PADDLE_START)]
  /\ conns = <<MatchConn>>
  /\ timers = [p \in Peers |-> 0]
  /\ frames = 0
  /\ keyEvents = 0
  /\ sessions = 2

MatchFrame == \E p \in Peers :
  frames < MaxMatchFrames /\ Frame(p) /\ frames' = frames + 1
  /\ UNCHANGED <<keyEvents, sessions>>
ClientKeyDown == \E k \in Keys : handleKeyDown(Client, k) /\ Counted
ClientKeyUp == \E k \in Keys : handleKeyUp(Client, k) /\ Counted
RecvInput == OnDataDst(1) /\ Counted
RecvUpdate == OnDataSrc(1) /\ Counted
LoseInput == LoseToDst(1) /\ Counted
LoseUpdate == LoseToSrc(1) /\ Counted

NextMatch ==
  \/ MatchFrame \/ ClientKeyDown \/ ClientKeyUp
  \/ RecvInput \/ RecvUpdate \/ LoseInput \/ LoseUpdate

SpecMatch == InitMatch /\ [][NextMatch]_vars

\* C2: after the Host has processed a delivered INPUT{y}, paddles.client_y
\* equals that y, whatever was lost before it; every step that is not the
\* processing of a message leaves paddles.client_y as it is.
C2_LastWriteWins ==
  [][/\ (OnDataDst(1) /\ Head(conns[1].toDst).type = "INPUT")
          => HostGS'.p2.y = Head(conns[1].toDst).y
     /\ ~OnDataDst(1) => HostGS'.p2.y = HostGS.p2.y]_vars

\* the Host holds a position received from the Client while the Client's
\* paddle is already elsewhere
C2_Witness ==
  /\ HostGS.p2.y = PADDLE_START + PADDLE_SPEED
  /\ pong[Client].myPaddle = PADDLE_START + 3 * PADDLE_SPEED
  /\ conns[1].toDst = <<>>


----------------------------------------------------------------------------
(* Properties of connections, roles and sessions *)

\* setTimeout callbacks run: a pending timer eventually fires
SpecLive == Spec /\ \A p \in Peers : WF_vars(TimerFire(p) /\ Counted)

\* the connections on which p has data and close handlers that can still run
ActiveConns(p) ==
  {c \in ConnIds :
     \/ conns[c].dst = p /\ conns[c].dstH # "none" /\ ~conns[c].dstSeen
     \/ conns[c].src = p /\ conns[c].srcH # "none" /\ ~conns[c].srcSeen}

\* no other connection was made to or from an endpoint of c
OnlyConn(c) ==
  \A d \in ConnIds \ {c} :
    {conns[d].src, conns[d].dst} \cap {conns[c].src, conns[c].dst} = {}

BothOpen(c) ==
  /\ conns[c].src \in Peers
  /\ conns[c].arrived /\ conns[c].opened /\ ~conns[c].closed

\* C7: when A listens and B connects to A's identity and no other connection
\* is involved, then once both sides have seen the connection open A's role
\* is Host and B's role is Client, as are the roles their handlers run with.
C7_RoleByDirection ==
  \A c \in ConnIds :
    (BothOpen(c) /\ OnlyConn(c))
      => /\ pong[conns[c].dst].role = "host"
         /\ pong[conns[c].src].role = "client"
         /\ conns[c].dstH = "host"
         /\ conns[c].srcH = "client"

\* both sides play on the one connection between them
C7_Witness ==
  /\ Len(conns) = 1
  /\ BothOpen(1)
  /\ pong["A"].mode = "playing" /\ pong["B"].mode = "playing"
  /\ pong["A"].effect.role = "host" /\ pong["B"].effect.role = "client"

\* C8: once a peer is playing with a role, no later event of the session
\* changes that role.
C8_RoleImmutable ==
  [][\A p \in Peers :
       (pongActive[p] /\ pongActive'[p] /\ pong[p].mode = "playing")
         => pong'[p].role = pong[p].role]_vars

\* C9: at every point of a session a peer has at most one connection whose
\* data and close handlers are installed on it.
C9_OneActiveConnection ==
  \A p \in Peers : Cardinality(ActiveConns(p)) <= 1

\* the close handler of p ran while p was playing
CloseProcessed(p) ==
  /\ pongActive[p]
  /\ pong[p].mode = "playing"
  /\ pong[p].statusMsg = "OPPONENT DISCONNECTED"
  /\ timers[p] > 0

\* the game session of p is closed and no frame callback is scheduled
SessionClosed(p) == ~pongActive[p] /\ ~pong[p].effect.on

\* C10: if the connection closes while the peer is playing, the session is
\* closed when the delay has elapsed, and a closed session has no frame
\* callback.
C10_CloseLeadsToIdle ==
  \A p \in Peers :
    /\ CloseProcessed(p) ~> SessionClosed(p)
    /\ [](~pongActive[p] => ~pong[p].effect.on)

\* the close was processed, the loop still runs and the timer is pending
C10_Witness ==
  \E p \in Peers : CloseProcessed(p) /\ pong[p].effect.on

----------------------------------------------------------------------------
(* Properties of the loop and of the replica *)

\* C11: once a peer has processed the close of its connection, no frame of
\* its game loop runs any more.
C11_NoFrameAfterClose ==
  [][\A p \in Peers : CloseProcessed(p) => ~Frame(p)]_vars

Last(s) == s[Len(s)]

\* C12: the snapshot the Host sends in a frame is its GameState after that
\* frame, and after the Client has processed a snapshot its whole replica
\* (ball, paddles, score) and its displayed scores equal that snapshot.
C12_ReplicaIsSnapshot ==
  [][/\ (Frame(Host) /\ Len(conns'[1].toSrc) > Len(conns[1].toSrc))
          => Last(conns'[1].toSrc) = UpdateMsg(HostGS')
     /\ (OnDataSrc(1) /\ Head(conns[1].toSrc).type = "UPDATE")
          => /\ pong'[Client].gameState = Head(conns[1].toSrc).state
             /\ pong'[Client].scores = Head(conns[1].toSrc).state.score]_vars

\* the Client's replica holds a snapshot in which the ball has moved and
\* the Client's paddle is where an INPUT put it
C12_Witness ==
  /\ pong[Client].gameState.p2.y = PADDLE_START + PADDLE_SPEED
  /\ pong[Client].gameState.ball.x # CENTER_X * H
  /\ pong[Client].gameState = HostGS

\* C13: a frame of a peer whose role is Client leaves its replica and its
\* scores as they are, and the Client's replica changes only in the
\* processing of a received message.
C13_ClientFrameKeepsReplica ==
  [][/\ \A p \in Peers :
          (pong[p].role = "client" /\ Frame(p))
            => /\ pong'[p].gameState = pong[p].gameState
               /\ pong'[p].scores = pong[p].scores
     /\ pong'[Client].gameState # pong[Client].gameState => OnDataSrc(1)]_vars

\* the Client has moved its paddle and sent it while its replica is still
\* the initial one
C13_Witness ==
  /\ pong[Client].myPaddle = PADDLE_START + PADDLE_SPEED
  /\ pong[Client].gameState = InitialGameState
  /\ conns[1].toDst = <<InputMsg(PADDLE_START + PADDLE_SPEED)>>

----------------------------------------------------------------------------
(* A match whose other endpoint sends messages without their payload *)

\* an INPUT without y reaches the Host's side of the connection
MalformedInput ==
  /\ Len(conns[1].toDst) < MaxQueue
  /\ conns' = [conns EXCEPT ![1].toDst = Append(@, InputMsg(Undefined))]
  /\ UNCHANGED <<pongActive, pong, timers>>
  /\ Counted

\* an UPDATE without state reaches the Client's side of the connection
MalformedUpdate ==
  /\ Len(conns[1].toSrc) < MaxQueue
  /\ conns' = [conns EXCEPT ![1].toSrc = Append(@, UpdateMsg(UndefinedState))]
  /\ UNCHANGED <<pongActive, pong, timers>>
  /\ Counted

NextWire == NextMatch \/ MalformedInput \/ MalformedUpdate

SpecWire == InitMatch /\ [][NextWire]_vars

Malformed(msg) ==
  \/ msg.type = "INPUT" /\ msg.y = Undefined
  \/ msg.type = "UPDATE" /\ msg.state = UndefinedState

\* C14: the processing of a malformed INPUT or UPDATE leaves the receiver's
\* GameState as it was and its frame loop running.
C14_MalformedDropped ==
  [][/\ (OnDataDst(1) /\ Malformed(Head(conns[1].toDst)))
          => pong'[Host].gameState = pong[Host].gameState
     /\ (OnDataSrc(1) /\ Malformed(Head(conns[1].toSrc)))
          => pong'[Client].gameState = pong[Client].gameState
     /\ \A p \in Peers : pong[p].effect.raf => pong'[p].effect.raf]_vars

----------------------------------------------------------------------------
(* Properties of the session's states *)

\* C15: no step takes a peer from the menu to the playing view.
C15_NoPlayingFromMenu ==
  [][\A p \in Peers :
       (pongActive[p] /\ pongActive'[p] /\ pong[p].mode = "menu")
         => pong'[p].mode # "playing"]_vars

\* C16: while the Host's loop runs on a connection that is not closed, the
\* Host's side of that connection is open.
C16_HostLoopOnOpenConnection ==
  \A p \in Peers :
    (pongActive[p] /\ pong[p].effect.on /\ pong[p].effect.role = "host"
       /\ pong[p].effect.conn # 0)
      => (~conns[pong[p].effect.conn].closed
            => conns[pong[p].effect.conn].dstUp)

\* the connection p plays on was open on p's side and p's close handler ran
ClosedAfterOpen(p) ==
  /\ CloseProcessed(p)
  /\ pong[p].conn # 0
  /\ LET cn == conns[pong[p].conn]
     IN  /\ cn.closed
         /\ \/ cn.dst = p /\ cn.dstUp /\ cn.dstSeen
            \/ cn.src = p /\ cn.opened /\ cn.srcSeen

\* C17: a peer that has processed the close of its connection and accepts a
\* new connection before its session has ended starts from the initial
\* GameState and scores 0-0.
C17_NoResumeAfterClose ==
  [][\A c \in ConnIds :
       (Incoming(c) /\ ClosedAfterOpen(conns[c].dst))
         => /\ pong[conns[c].dst].gameState = InitialGameState
            /\ pong[conns[c].dst].scores = InitialGameState.score]_vars

\* the status message as the rendered view shows it: only the joining view
\* has an element for it
StatusShown(r) == IF r.mode = "joining" THEN r.statusMsg ELSE ""

\* C18: from the processing of the close until the session ends the view
\* shows the disconnect notice.
C18_NoticeVisible ==
  \A p \in Peers :
    ClosedAfterOpen(p) => StatusShown(pong[p]) = "OPPONENT DISCONNECTED"

----------------------------------------------------------------------------
(* The lobby: identities drawn at random, codes typed by the users *)

\* the codes the users type
Codes == {<<"1", "0", "0", "0">>, <<"a", "b", "1", "2">>,
          <<"A", "B", "1", "2">>, <<"1", "0">>}

LobbyOpenGame == \E p \in Peers, n \in Numbers :
  sessions < MaxSessions /\ OpenGame(p, randomId(n))
  /\ sessions' = sessions + 1 /\ UNCHANGED <<frames, keyEvents>>
LobbyPeerError == \E p \in Peers : PeerError(p) /\ Counted
LobbyChooseJoin == \E p \in Peers : ChooseJoin(p) /\ Counted
LobbyTypeCode == \E p \in Peers, v \in Codes : TypeCode(p, v) /\ Counted

NextLobby ==
  \/ LobbyOpenGame \/ DoPeerOpen \/ LobbyPeerError \/ DoCloseGame
  \/ LobbyChooseJoin \/ DoCancel \/ LobbyTypeCode \/ DoJoin

SpecLobby == Init /\ [][NextLobby]_vars

\* the server answers every registration
SpecLobbyLive ==
  SpecLobby /\ \A p \in Peers : /\ WF_vars(PeerOpen(p) /\ Counted)
                                /\ WF_vars(PeerError(p) /\ Counted)

\* C19: a mounted peer whose identity was refused as taken comes to hold a
\* registered identity (unless the user closes the game first).
C19_CollisionRecovered ==
  \A p \in Peers :
    (pongActive[p] /\ pong[p].peer.failed)
      ~> (~pongActive[p] \/ pong[p].myId # <<>>)

\* p pressed CONNECT with the code its input holds: the identity looked up
LookedUp(p) ==
  /\ pongActive[p] /\ pong[p].conn # 0
  /\ conns[pong[p].conn].src = p
  /\ conns[pong[p].conn].peer = cleanId(pong[p].joinId)

\* C20: the identity looked up carries the prefix exactly once, is the same
\* for two codes that differ only in letter case, and is left unchanged by
\* the normalisation.
C20_CodeNormalized ==
  \A p \in Peers, q \in Peers :
    (LookedUp(p) /\ LookedUp(q))
      => LET idp == conns[pong[p].conn].peer
             idq == conns[pong[q].conn].peer
         IN  /\ startsWith(idp, PREFIX)
             /\ ~startsWith(SubSeq(idp, Len(PREFIX) + 1, Len(idp)), PREFIX)
             /\ toUpperCase(pong[p].joinId) = toUpperCase(pong[q].joinId)
                  => idp = idq
             /\ cleanId(idp) = idp

----------------------------------------------------------------------------
(* A match in which the Client receives the Host's snapshots, with loss *)

NextScore == HostFrame \/ RecvUpdate \/ LoseUpdate

SpecScore == InitGame /\ [][NextScore]_vars

\* C21: no step lowers a score: not in the Host's GameState, not in the
\* Client's replica, not in the scores either peer displays.
C21_ScoresMonotonic ==
  [][\A p \in Peers :
       /\ pong'[p].gameState.score.p1 >= pong[p].gameState.score.p1
       /\ pong'[p].gameState.score.p2 >= pong[p].gameState.score.p2
       /\ pong'[p].scores.p1 >= pong[p].scores.p1
       /\ pong'[p].scores.p2 >= pong[p].scores.p2]_vars

\* the Client's replica shows a point that the Host's simulation gave after
\* the Client had already received an earlier snapshot
C21_Witness ==
  /\ pong[Client].gameState.p2.y = PADDLE_START
  /\ pong[Client].gameState.score = [p1 |-> 1, p2 |-> 0]
  /\ pong[Client].scores = pong[Client].gameState.score
  /\ pong[Client].gameState.ball.x = CENTER_X * H
  /\ pong[Client].gameState.ball.dx > 0
  /\ pong[Client].gameState.ball.dy > 0


C23_OwnPaddleLocal ==
  [][/\ draw(pong'[Host]).left = pong'[Host].myPaddle
     /\ draw(pong'[Host]).right = HostGS'.p2.y
     /\ draw(pong'[Client]).right = pong'[Client].myPaddle
     /\ draw(pong'[Client]).left = pong'[Client].gameState.p1.y
     /\ \A p \in Peers :
          draw(pong'[p]).ball = <<pong'[p].gameState.ball.x,
                                  pong'[p].gameState.ball.y>>
     /\ OnDataSrc(1)
          => /\ pong'[Client].myPaddle = pong[Client].myPaddle
             /\ draw(pong'[Client]).right = draw(pong[Client]).right
             /\ draw(pong'[Client]).left = Head(conns[1].toSrc).state.p1.y
     /\ OnDataDst(1)
          => /\ draw(pong'[Host]).right = Head(conns[1].toDst).y
             /\ draw(pong'[Host]).left = draw(pong[Host]).left
     /\ (Frame(Client) /\ conns'[1].toDst # conns[1].toDst)
          => Last(conns'[1].toDst).y = pong'[Client].myPaddle]_vars

\* the Client holds a received snapshot whose client paddle differs from the
\* paddle it draws for itself
C23_Witness ==
  /\ pong[Client].gameState.ball = HostGS.ball
  /\ pong[Client].gameState.p2.y = PADDLE_START + PADDLE_SPEED
  /\ draw(pong[Client]).right = PADDLE_START + 2 * PADDLE_SPEED
  /\ draw(pong[Host]).right = PADDLE_START + PADDLE_SPEED

\* C24: a Client frame sends an INPUT exactly when the paddle value after
\* sampling differs from the value before: one message with the new value
\* when it differs (the channel having room), none when it is the same.
C24_InputIffChanged ==
  [][Frame(Client)
       => IF pong'[Client].myPaddle # pong[Client].myPaddle
          THEN Len(conns[1].toDst) < MaxQueue
                 => conns'[1].toDst =
                      Append(conns[1].toDst, InputMsg(pong'[Client].myPaddle))
          ELSE conns'[1].toDst = conns[1].toDst]_vars

\* the ball at the paddle-collision step of this tick
CollisionBall == WallBounce(Integrate(HostGS.ball))

\* the ball (its bounding square) overlaps the paddle rectangle whose top
\* left corner is (rx, ry)
OverlapsPaddle(ball, rx, ry) ==
  /\ ball.x + BALL_RADIUS * H >= rx * H
  /\ ball.x - BALL_RADIUS * H <= (rx + PADDLE_W) * H
  /\ ball.y + BALL_RADIUS * H >= ry * H
  /\ ball.y - BALL_RADIUS * H <= (ry + PADDLE_HEIGHT) * H

----------------------------------------------------------------------------
(* A match with key events, repeated ones included, at both peers *)

\* key events of one behaviour of SpecKeys
MaxKeyEvents == 3

KeyEvent ==
  /\ keyEvents < MaxKeyEvents
  /\ \E p \in Peers, k \in Keys : handleKeyDown(p, k) \/ handleKeyUp(p, k)
  /\ keyEvents' = keyEvents + 1
  /\ UNCHANGED <<frames, sessions>>

NextKeys == MatchFrame \/ KeyEvent \/ RecvInput \/ RecvUpdate

SpecKeys == InitMatch /\ [][NextKeys]_vars

\* C26: a key event changes nothing but the flag of its key (a key-down for
\* a key already held changes nothing at all): paddle values, GameState,
\* scores and the channels stay as they are; the paddle value changes only
\* in a frame, to the value sampled from the two flags.
C26_KeysOnlySetFlags ==
  [][/\ keyEvents' # keyEvents
          => /\ conns' = conns
             /\ \A p \in Peers :
                  /\ [pong'[p] EXCEPT !.keysPressed = pong[p].keysPressed]
                       = pong[p]
                  /\ \E k \in Keys :
                       \A j \in Keys \ {k} :
                         pong'[p].keysPressed[j] = pong[p].keysPressed[j]
     /\ \A p \in Peers :
          /\ Frame(p)
               => pong'[p].myPaddle
                    = Sample(pong[p].keysPressed, pong[p].myPaddle)
          /\ frames' = frames => pong'[p].myPaddle = pong[p].myPaddle]_vars

\* three key events, repeats of 'up' among them, and one sampled frame
C26_Witness ==
  /\ keyEvents = MaxKeyEvents
  /\ frames = 1
  /\ pong[Client].keysPressed = [up |-> TRUE, down |-> FALSE]
  /\ pong[Host].keysPressed = [up |-> FALSE, down |-> FALSE]
  /\ pong[Client].myPaddle = PADDLE_START - PADDLE_SPEED
  /\ conns[1].toDst = <<InputMsg(PADDLE_START - PADDLE_SPEED)>>

----------------------------------------------------------------------------
(* A match during which a third endpoint connects to the Client's identity *)

ThirdConnects == OutsiderConnect(Client) /\ Counted
ThirdArrives == Incoming(2) /\ Counted

NextRoleChange ==
  \/ MatchFrame \/ ClientKeyDown \/ ClientKeyUp
  \/ RecvInput \/ RecvUpdate \/ ThirdConnects \/ ThirdArrives

SpecRoleChange == InitMatch /\ [][NextRoleChange]_vars

\* C27: on a peer whose loop runs as Host, after every frame (the first one
\* included) GameState.paddles.host_y equals the peer's local paddle value.
C27_HostPaddleInGameState ==
  \A p \in Peers :
    (pong[p].effect.on /\ pong[p].effect.role = "host")
      => pong[p].gameState.p1.y = pong[p].myPaddle

\* C28: a timer that fires in a session in which no connection was made
\* (its status line is still empty, so the timer was scheduled when a
\* connection of an earlier session closed) does not close that session.
C28_OldTimerSparesNewSession ==
  [][\A p \in Peers :
       (pongActive[p] /\ pong[p].statusMsg = "" /\ timers'[p] < timers[p])
         => pongActive'[p]]_vars

----------------------------------------------------------------------------
(* A match in which every INPUT sent is delivered, in order *)

\* a frame of either loop; the Client's runs when the channel to the Host
\* takes its message
DeliverFrame == \E p \in Peers :
  /\ frames < MaxMatchFrames
  /\ p = Client => Len(conns[1].toDst) < MaxQueue
  /\ Frame(p) /\ frames' = frames + 1
  /\ UNCHANGED <<keyEvents, sessions>>

NextDeliver ==
  \/ DeliverFrame \/ ClientKeyDown \/ ClientKeyUp
  \/ RecvInput \/ RecvUpdate \/ LoseUpdate

SpecDeliver == InitMatch /\ [][NextDeliver]_vars /\ WF_vars(RecvInput)

\* the paddle values a Client reaches within the frames considered
Positions ==
  {PADDLE_START + k * PADDLE_SPEED : k \in -MaxMatchFrames .. MaxMatchFrames}

----------------------------------------------------------------------------
(* A match with a role change and the X button *)

CloseAny == (\E p \in Peers : CloseGame(p)) /\ Counted

NextRestart ==
  \/ MatchFrame \/ ClientKeyDown \/ ClientKeyUp \/ RecvInput \/ RecvUpdate
  \/ ThirdConnects \/ ThirdArrives \/ CloseAny

SpecRestart == InitMatch /\ [][NextRestart]_vars

\* C30: a peer has at most one frame callback scheduled and at most one
\* pair of key listeners registered, and none of either while it is not in
\* 'playing', also after its loop was torn down and restarted.
C30_OneLoopPerPeer ==
  \A p \in Peers :
    /\ pong[p].effect.listeners <= 1
    /\ pong[p].effect.callbacks <= 1
    /\ ~(pongActive[p] /\ pong[p].mode = "playing")
         => pong[p].effect.listeners = 0 /\ pong[p].effect.callbacks = 0

\* a peer that was playing as Client on its own connection and whose loop
\* was restarted as Host on a connection it received
C30_Witness ==
  /\ Len(conns) = 2
  /\ conns[1].src = "B" /\ conns[1].opened
  /\ conns[2].dst = "B"
  /\ pong["B"].effect.role = "host" /\ pong["B"].effect.conn = 2
  /\ pong["B"].effect.listeners = 1 /\ pong["B"].effect.callbacks = 1
============================================================================
